---- MODULE Spec2Model ----
(***************************************************************************)
(* Model of the two scripts of the repository:                             *)
(*   extract_cv_text.py   main(): pdfplumber first, PyPDF2 as fallback,    *)
(*                        result saved to cv_extracted_text.txt            *)
(*   populate_cv_data.py  extract_cv_data(): the hard-coded CV document    *)
(* Text is a sequence of one-character strings; " " and "\n" are the       *)
(* whitespace characters that str.strip() removes.                         *)
(***************************************************************************)
EXTENDS Integers, Sequences, FiniteSets, TLC

\* Bounds of the model.
MaxPages == 2
MaxConcatPages == 3
MaxCalls == 3

(***************************************************************************)
(* Python values: None, a str, and an exception leaving a call.            *)
(***************************************************************************)
None == [kind |-> "None", val |-> <<>>]

Str(s) == [kind |-> "str", val |-> s]

Raised == [kind |-> "raised", val |-> <<>>]

\* `if x:` on a value that is None or a str
Truthy(v) == v.kind = "str" /\ v.val # <<>>

Whitespace == {" ", "\n"}

RECURSIVE lstrip(_)
lstrip(s) == IF s # <<>> /\ Head(s) \in Whitespace THEN lstrip(Tail(s)) ELSE s

RECURSIVE rstrip(_)
rstrip(s) ==
  IF s # <<>> /\ s[Len(s)] \in Whitespace
    THEN rstrip(SubSeq(s, 1, Len(s) - 1))
    ELSE s

\* str.strip()
strip(s) == rstrip(lstrip(s))

Sep == <<"\n", "\n">>

(***************************************************************************)
(* What a library reports for the PDF: whether it can open the file, and   *)
(* for every page what page.extract_text() gives: a str, None, or an       *)
(* exception.  The two libraries parse the file independently.             *)
(***************************************************************************)
PageTexts ==
  {None, Str(<<>>), Str(<<" ">>), Str(<<"a">>), Str(<<" ", "b">>)}

PageOutputs == PageTexts \cup {Raised}

RECURSIVE SeqsUpTo(_, _)
SeqsUpTo(S, n) ==
  IF n = 0 THEN {<<>>}
  ELSE LET shorter == SeqsUpTo(S, n - 1)
       IN shorter \cup {Append(q, x) : q \in shorter, x \in S}

Unopenable == [opens |-> FALSE, pages |-> <<>>]

LibViews ==
  {Unopenable} \cup {[opens |-> TRUE, pages |-> p] : p \in SeqsUpTo(PageOutputs, MaxPages)}

(***************************************************************************)
(* extract_text_pdfplumber                                                 *)
(***************************************************************************)
\* the for loop over pdf.pages: pages yielding None or "" are skipped
RECURSIVE PdfplumberLoop(_, _)
PdfplumberLoop(pages, text) ==
  IF pages = <<>> THEN Str(text)
  ELSE LET page_text == Head(pages)
       IN IF page_text.kind = "raised" THEN Raised
          ELSE IF Truthy(page_text)
            THEN PdfplumberLoop(Tail(pages), text \o page_text.val \o Sep)
            ELSE PdfplumberLoop(Tail(pages), text)

\* the body of the try block
PdfplumberTry(view) ==
  IF ~view.opens THEN Raised
  ELSE LET r == PdfplumberLoop(view.pages, <<>>)
       IN IF r.kind = "raised" THEN Raised ELSE Str(strip(r.val))

extract_text_pdfplumber_uncaught(view) == PdfplumberTry(view)

extract_text_pdfplumber_nostrip(view) ==
  IF ~view.opens THEN None
  ELSE LET r == PdfplumberLoop(view.pages, <<>>)
       IN IF r.kind = "raised" THEN None ELSE r

\* try ... except Exception: return None
extract_text_pdfplumber(view) ==
  LET r == PdfplumberTry(view)
  IN IF r.kind = "raised" THEN None ELSE r

(***************************************************************************)
(* extract_text_pypdf2                                                     *)
(***************************************************************************)
\* the for loop over pdf_reader.pages: every page's text is appended with
\* the separator; None + "\n\n" raises TypeError
RECURSIVE PyPDF2Loop(_, _)
PyPDF2Loop(pages, text) ==
  IF pages = <<>> THEN Str(text)
  ELSE LET page_text == Head(pages)
       IN IF page_text.kind # "str" THEN Raised
          ELSE PyPDF2Loop(Tail(pages), text \o page_text.val \o Sep)

PyPDF2Try(view) ==
  IF ~view.opens THEN Raised
  ELSE LET r == PyPDF2Loop(view.pages, <<>>)
       IN IF r.kind = "raised" THEN Raised ELSE Str(strip(r.val))

extract_text_pypdf2(view) ==
  LET r == PyPDF2Try(view)
  IN IF r.kind = "raised" THEN None ELSE r

(***************************************************************************)
(* The output file cv_extracted_text.txt                                   *)
(***************************************************************************)
NoFile == [kind |-> "absent", val |-> <<>>]

File(content) == [kind |-> "file", val |-> content]

HeaderPdfplumber == <<"=== CV TEXT EXTRACTED WITH PDFPLUMBER ===">> \o Sep

HeaderPyPDF2 == <<"=== CV TEXT EXTRACTED WITH PYPDF2 ===">> \o Sep

SaveAppending(old, header, text) == File(old.val \o header \o text)

\* open(..., "w") truncates; then the two f.write calls
Save(old, header, text) == File(header \o text)

\* what an earlier run may have left behind
PriorFiles ==
  {NoFile,
   File(HeaderPdfplumber \o <<"a">>),
   File(HeaderPyPDF2 \o <<"a", "\n", "\n", "\n", "\n", "a">>)}

(***************************************************************************)
(* populate_cv_data.py: the document as the ordered list of its top-level  *)
(* keys, each with the ordered list of what it holds (the field names of a *)
(* record, the first field of every entry of a list).                      *)
(***************************************************************************)
Entry(k, v) == [key |-> k, items |-> v]

personal_info ==
  <<"name", "title", "email", "phone", "location", "linkedIn", "github",
    "website", "profilePhoto">>

summary == <<"introduction", "keyStrengths", "careerObjective">>

experience ==
  <<"Cisco", "Digitalidag, Post och telestyrelsen PTS", "DePalma Workwear",
    "Postnord International", "Skandia">>

projects ==
  <<"Digitalidag.se - Tillganglig Webbplats", "Skandia Designsystem",
    "SJ.se Mikrofrontend Arkitektur">>

education == <<"Blekinge Tekniska Hogskola", "Blekinge Tekniska Hogskola">>

certifications ==
  <<"Certified Professional in Accessibility Core Competencies (CPACC)",
    "Agile core competence and fundamentals course",
    "Web Accessibility by Google", "Agile Scrum kurs">>

courses ==
  <<"Tillganglighet konferens och workshops", "UX kurser, Lean UX & UX strategi">>

skills ==
  <<"Frontend Utveckling", "Backend Utveckling", "Tillganglighet & Kvalitet",
    "DevOps & Verktyg", "CMS & E-handel", "Analys & SEO", "Ledarskap & Process">>

languages == <<"Svenska", "Engelska">>

template_settings ==
  <<"template", "theme", "fontSize", "showPhoto", "showReferences", "language",
    "margins", "colorScheme">>

\* the dict literal of the return statement
CVDocument ==
  <<Entry("personalInfo", personal_info),
    Entry("summary", summary),
    Entry("experience", experience),
    Entry("projects", projects),
    Entry("education", education),
    Entry("certifications", certifications),
    Entry("courses", courses),
    Entry("skills", skills),
    Entry("languages", languages),
    Entry("templateSettings", template_settings)>>

\* a builder that hands out one module-level document
extract_cv_data_shared(h) ==
  IF h = <<>>
    THEN [heap |-> <<CVDocument>>, id |-> 1]
    ELSE [heap |-> h, id |-> 1]

\* every call evaluates the literals anew: the returned dict and everything
\* in it are new objects.  h is the heap of documents built so far.
extract_cv_data(h) == [heap |-> Append(h, CVDocument), id |-> Len(h) + 1]

\* What a caller may do to a document it holds.
Reverse(q) == [i \in 1..Len(q) |-> q[Len(q) + 1 - i]]

PopSummary(doc) == SelectSeq(doc, LAMBDA e : e.key # "summary")

ReverseExperience(doc) ==
  [i \in 1..Len(doc) |->
     IF doc[i].key = "experience"
       THEN Entry(doc[i].key, Reverse(doc[i].items))
       ELSE doc[i]]

\* d.clear(), d.pop("summary", None), d["experience"].reverse()
CallerEdits(doc) == {<<>>, PopSummary(doc), ReverseExperience(doc)}

VARIABLES
  pdfExists,      \* os.path.exists(pdf_path)
  plumberView,    \* what pdfplumber reports for the file
  pypdfView,      \* what PyPDF2 reports for the file
  outFile,        \* cv_extracted_text.txt
  pc,             \* position in main()
  text_plumber,   \* main's local; Unset before the call
  text_pypdf2,    \* main's local; Unset before the call
  exitCode,       \* {} while running, {n} once main returned n
  priorFile,      \* history: outFile when the run started
  attempts,       \* history: the extraction calls made, in order
  written,        \* history: this run wrote outFile
  heap,           \* the documents extract_cv_data has built, by identity
  returned,       \* history: the identity each call returned
  retlog          \* history: each call's document as it was on return

vars ==
  <<pdfExists, plumberView, pypdfView, outFile, pc, text_plumber, text_pypdf2,
    exitCode, priorFile, attempts, written, heap, returned, retlog>>

extractorVars ==
  <<pdfExists, plumberView, pypdfView, outFile, pc, text_plumber, text_pypdf2,
    exitCode, priorFile, attempts, written>>

builderVars == <<heap, returned, retlog>>

Unset == [kind |-> "unset", val |-> <<>>]

env == <<pdfExists, plumberView, pypdfView, priorFile>>

BuilderNotRun ==
  /\ heap = <<>>
  /\ returned = <<>>
  /\ retlog = <<>>

Init ==
  /\ BuilderNotRun
  /\ pdfExists \in BOOLEAN
  /\ plumberView \in (IF pdfExists THEN LibViews ELSE {Unopenable})
  /\ pypdfView \in (IF pdfExists THEN LibViews ELSE {Unopenable})
  /\ outFile \in PriorFiles
  /\ priorFile = outFile
  /\ pc = "check"
  /\ text_plumber = Unset
  /\ text_pypdf2 = Unset
  /\ exitCode = {}
  /\ attempts = <<>>
  /\ written = FALSE

FileMissingNever(exists) == FALSE

\* `if not os.path.exists(pdf_path):`
FileMissing(exists) == ~exists

ReturnZeroWhenBothFailed == {0}

\* `return 1` after "Both extraction methods failed!"
ReturnBothFailed == {1}

\* if not os.path.exists(pdf_path): ... return 1
CheckExists ==
  /\ pc = "check"
  /\ IF FileMissing(pdfExists)
       THEN pc' = "done" /\ exitCode' = {1}
       ELSE pc' = "plumber" /\ exitCode' = exitCode
  /\ UNCHANGED <<builderVars, env, outFile, text_plumber, text_pypdf2, attempts, written>>

PlumberSucceededUnlessNone(r) == r.kind = "str"

PlumberNeverSucceeds(r) == FALSE

\* `if text_plumber:`
PlumberSucceeded(r) == Truthy(r)

\* text_plumber = extract_text_pdfplumber(pdf_path); if text_plumber: ... else: ...
TryPdfplumber ==
  /\ pc = "plumber"
  /\ LET r == extract_text_pdfplumber(plumberView)
     IN /\ attempts' = Append(attempts, "pdfplumber")
        /\ IF r.kind = "raised"
             THEN pc' = "raised" /\ text_plumber' = text_plumber
             ELSE /\ text_plumber' = r
                  /\ pc' = IF PlumberSucceeded(r) THEN "save_plumber" ELSE "pypdf2"
  /\ UNCHANGED <<builderVars, env, outFile, text_pypdf2, exitCode, written>>

\* the with open(...) block of the pdfplumber branch, then return 0
SavePdfplumber ==
  /\ pc = "save_plumber"
  /\ outFile' = Save(outFile, HeaderPdfplumber, text_plumber.val)
  /\ written' = TRUE
  /\ pc' = "done"
  /\ exitCode' = {0}
  /\ UNCHANGED <<builderVars, env, text_plumber, text_pypdf2, attempts>>

\* text_pypdf2 = extract_text_pypdf2(pdf_path); if text_pypdf2: ... else: return 1
TryPyPDF2 ==
  /\ pc = "pypdf2"
  /\ LET r == extract_text_pypdf2(pypdfView)
     IN /\ attempts' = Append(attempts, "PyPDF2")
        /\ IF r.kind = "raised"
             THEN pc' = "raised" /\ text_pypdf2' = text_pypdf2 /\ exitCode' = exitCode
             ELSE /\ text_pypdf2' = r
                  /\ IF Truthy(r)
                       THEN pc' = "save_pypdf2" /\ exitCode' = exitCode
                       ELSE pc' = "done" /\ exitCode' = ReturnBothFailed
  /\ UNCHANGED <<builderVars, env, outFile, text_plumber, written>>

\* the with open(...) block of the PyPDF2 branch, then return 0
SavePyPDF2 ==
  /\ pc = "save_pypdf2"
  /\ outFile' = Save(outFile, HeaderPyPDF2, text_pypdf2.val)
  /\ written' = TRUE
  /\ pc' = "done"
  /\ exitCode' = {0}
  /\ UNCHANGED <<builderVars, env, text_plumber, text_pypdf2, attempts>>

Next ==
  \/ CheckExists
  \/ TryPdfplumber
  \/ SavePdfplumber
  \/ TryPyPDF2
  \/ SavePyPDF2

Spec == Init /\ [][Next]_vars

(***************************************************************************)
(* The two extraction functions called directly on one sequence of page    *)
(* texts.                                                                  *)
(***************************************************************************)
InitConcat ==
  /\ BuilderNotRun
  /\ pdfExists = TRUE
  /\ plumberView \in {[opens |-> TRUE, pages |-> p] : p \in SeqsUpTo(PageTexts, MaxConcatPages)}
  /\ pypdfView = plumberView
  /\ outFile = NoFile
  /\ priorFile = NoFile
  /\ pc = "call"
  /\ text_plumber = Unset
  /\ text_pypdf2 = Unset
  /\ exitCode = {}
  /\ attempts = <<>>
  /\ written = FALSE

CallPdfplumber ==
  /\ pc = "call"
  /\ text_plumber = Unset
  /\ text_plumber' = extract_text_pdfplumber(plumberView)
  /\ attempts' = Append(attempts, "pdfplumber")
  /\ UNCHANGED <<builderVars, env, outFile, pc, text_pypdf2, exitCode, written>>

CallPyPDF2 ==
  /\ pc = "call"
  /\ text_pypdf2 = Unset
  /\ text_pypdf2' = extract_text_pypdf2(pypdfView)
  /\ attempts' = Append(attempts, "PyPDF2")
  /\ UNCHANGED <<builderVars, env, outFile, pc, text_plumber, exitCode, written>>

NextConcat ==
  \/ CallPdfplumber
  \/ CallPyPDF2

SpecConcat == InitConcat /\ [][NextConcat]_vars

(***************************************************************************)
(* Callers of extract_cv_data: any number of calls, and edits of the       *)
(* documents already returned.                                             *)
(***************************************************************************)
ExtractorNotRun ==
  /\ pdfExists = FALSE
  /\ plumberView = Unopenable
  /\ pypdfView = Unopenable
  /\ outFile = NoFile
  /\ priorFile = NoFile
  /\ pc = "not_run"
  /\ text_plumber = Unset
  /\ text_pypdf2 = Unset
  /\ exitCode = {}
  /\ attempts = <<>>
  /\ written = FALSE

InitBuilder ==
  /\ ExtractorNotRun
  /\ BuilderNotRun

\* cv_data = extract_cv_data()
CallBuilder ==
  /\ Len(returned) < MaxCalls
  /\ LET r == extract_cv_data(heap)
     IN /\ heap' = r.heap
        /\ returned' = Append(returned, r.id)
        /\ retlog' = Append(retlog,
             [doc |-> r.heap[r.id],
              afterEdit |-> \E i \in 1..Len(heap) : heap[i] # CVDocument])
  /\ UNCHANGED extractorVars

\* a caller changes a document it was given
EditReturned ==
  /\ \E i \in 1..Len(returned) :
       \E d \in CallerEdits(heap[returned[i]]) :
         heap' = [heap EXCEPT ![returned[i]] = d]
  /\ UNCHANGED <<extractorVars, returned, retlog>>

NextBuilder ==
  \/ CallBuilder
  \/ EditReturned

SpecBuilder == InitBuilder /\ [][NextBuilder]_vars

(***************************************************************************)
(* Properties of main()                                                    *)
(***************************************************************************)
PlumberAttempted == Len(attempts) >= 1 /\ attempts[1] = "pdfplumber"

PyPDF2Attempted == Len(attempts) >= 2 /\ attempts[2] = "PyPDF2"

\* both methods were tried and neither gave text
BothFailed ==
  /\ PlumberAttempted /\ text_plumber # Unset /\ ~Truthy(text_plumber)
  /\ PyPDF2Attempted /\ text_pypdf2 # Unset /\ ~Truthy(text_pypdf2)

\* the first line of the output file and what follows the blank line
HeaderLine(f) == f.val[1]

Body(f) == SubSeq(f.val, 4, Len(f.val))

\* C1: a run that returned ended with 0 or 1; with 0 exactly when it wrote
\* the output file; with 1 exactly when the PDF is absent or both methods
\* gave no text; a run that has not returned has no exit code.
C1_ExitCodes ==
  /\ pc = "done" => exitCode \in {{0}, {1}}
  /\ pc = "done" => (exitCode = {0} <=> written /\ outFile.kind = "file")
  /\ pc = "done" => (exitCode = {1} <=> (~pdfExists \/ BothFailed))
  /\ pc # "done" => exitCode = {}

C1_Witness ==
  /\ pc = "done" /\ exitCode = {1} /\ pdfExists /\ BothFailed
  /\ plumberView.opens /\ pypdfView.opens

\* C2: with the PDF missing, main returns 1, calls neither method and the
\* output file is what it was when the run started.
C2_MissingPdf ==
  ~pdfExists =>
    /\ attempts = <<>>
    /\ outFile = priorFile
    /\ ~written
    /\ pc \in {"check", "done"}
    /\ pc = "done" => exitCode = {1}

C2_Witness == ~pdfExists /\ pc = "done" /\ priorFile.kind = "file"

\* a PDF has extractable text when at least one of the methods gets
\* non-empty text out of it
HasExtractableText ==
  \/ Truthy(extract_text_pdfplumber(plumberView))
  \/ Truthy(extract_text_pypdf2(pypdfView))

PlumberRaises == PdfplumberTry(plumberView).kind = "raised"

PlumberEmpty == PdfplumberTry(plumberView) = Str(<<>>)

ResultPresent == written /\ outFile.kind = "file" /\ Body(outFile) # <<>>

\* C3 as claimed: for a PDF with extractable text the result is present and
\* non-empty, produced by pdfplumber unless pdfplumber raises, and then by
\* PyPDF2.
C3_MethodUnlessError ==
  (pc = "done" /\ pdfExists /\ HasExtractableText) =>
    /\ ResultPresent
    /\ HeaderLine(outFile) =
         (IF PlumberRaises THEN HeaderPyPDF2[1] ELSE HeaderPdfplumber[1])

\* C3 amended: for a PDF with extractable text the result is present and
\* non-empty, produced by pdfplumber unless pdfplumber raises or returns
\* empty text, and then by PyPDF2.
C3_MethodUnlessErrorOrEmpty ==
  (pc = "done" /\ pdfExists /\ HasExtractableText) =>
    /\ ResultPresent
    /\ HeaderLine(outFile) =
         (IF PlumberRaises \/ PlumberEmpty THEN HeaderPyPDF2[1] ELSE HeaderPdfplumber[1])

C3_Witness ==
  /\ pc = "done" /\ pdfExists /\ HasExtractableText
  /\ PlumberEmpty /\ ResultPresent

\* C4: pdfplumber returning "" leads to the PyPDF2 attempt just as an error
\* does; if PyPDF2 gives no text either, nothing is written and main
\* returns 1.
C4_EmptyTriggersFallback ==
  (pdfExists /\ pc = "done" /\ (PlumberEmpty \/ PlumberRaises)) =>
    /\ attempts = <<"pdfplumber", "PyPDF2">>
    /\ ~Truthy(text_pypdf2) =>
         /\ exitCode = {1}
         /\ ~written
         /\ outFile = priorFile

C4_Witness ==
  /\ pdfExists /\ pc = "done" /\ PlumberEmpty
  /\ plumberView.pages # <<>>
  /\ text_pypdf2 = Str(<<>>)
  /\ priorFile.kind = "file"

\* C5: the attempts are made in order, each at most once; PyPDF2 is tried
\* only after pdfplumber has returned no text, and never after it returned
\* text.
C5_AttemptsOrdered ==
  /\ attempts \in {<<>>, <<"pdfplumber">>, <<"pdfplumber", "PyPDF2">>}
  /\ PyPDF2Attempted => (text_plumber # Unset /\ ~Truthy(text_plumber))
  /\ pc = "pypdf2" => (text_plumber # Unset /\ ~Truthy(text_plumber))
  /\ Truthy(text_plumber) => attempts = <<"pdfplumber">>

C5_Witness == PyPDF2Attempted /\ text_plumber = Str(<<>>) /\ Truthy(text_pypdf2)

\* C6: an exception inside either attempt never leaves the attempt; after
\* one in pdfplumber the PyPDF2 attempt is made, after one in PyPDF2 main
\* returns 1.
C6_ExceptionsCaught ==
  /\ pc # "raised"
  /\ (PlumberAttempted /\ PlumberRaises) => text_plumber = None
  /\ (pc = "done" /\ PlumberAttempted /\ PlumberRaises) => PyPDF2Attempted
  /\ (PyPDF2Attempted /\ PyPDF2Try(pypdfView).kind = "raised") =>
       (text_pypdf2 = None /\ pc = "done" /\ exitCode = {1})

C6_Witness ==
  /\ pc = "done" /\ PlumberRaises /\ plumberView.opens
  /\ PyPDF2Attempted /\ PyPDF2Try(pypdfView).kind = "raised" /\ pypdfView.opens

\* C7: a text that counts as a result, and the body of a file that was
\* written, is not empty after trimming.
C7_TextNonEmptyTrimmed ==
  /\ Truthy(text_plumber) => strip(text_plumber.val) # <<>>
  /\ Truthy(text_pypdf2) => strip(text_pypdf2.val) # <<>>
  /\ written => strip(Body(outFile)) # <<>>

C7_Witness ==
  /\ written
  /\ Truthy(text_plumber)
  /\ \E i \in 1..Len(plumberView.pages) : plumberView.pages[i] = Str(<<" ">>)

\* C8: after the save the file is the header line of the producing method,
\* a blank line and the text, whatever the file held before.
C8_FileIsHeaderAndText ==
  written =>
    /\ outFile.kind = "file"
    /\ outFile.val =
         (IF Truthy(text_plumber)
            THEN <<"=== CV TEXT EXTRACTED WITH PDFPLUMBER ===", "\n", "\n">>
                   \o text_plumber.val
            ELSE <<"=== CV TEXT EXTRACTED WITH PYPDF2 ===", "\n", "\n">>
                   \o text_pypdf2.val)

C8_Witness == written /\ priorFile.kind = "file" /\ outFile # priorFile

(***************************************************************************)
(* Property of the two extraction functions                                *)
(***************************************************************************)
\* the non-empty page texts joined by a double newline
RECURSIVE JoinNonEmpty(_)
JoinNonEmpty(pages) ==
  IF pages = <<>> THEN <<>>
  ELSE LET rest == JoinNonEmpty(Tail(pages))
       IN IF ~Truthy(Head(pages)) THEN rest
          ELSE IF rest = <<>> THEN Head(pages).val
          ELSE Head(pages).val \o Sep \o rest

\* C10: on one sequence of page texts each method returns the non-empty
\* page texts joined by a double newline and trimmed, so both return the same.
C10_SamePolicy ==
  /\ text_plumber # Unset =>
       text_plumber = Str(strip(JoinNonEmpty(plumberView.pages)))
  /\ text_pypdf2 # Unset =>
       text_pypdf2 = Str(strip(JoinNonEmpty(pypdfView.pages)))
  /\ (text_plumber # Unset /\ text_pypdf2 # Unset) => text_pypdf2 = text_plumber

(***************************************************************************)
(* Property of extract_cv_data                                             *)
(***************************************************************************)
Keys(doc) == [i \in 1..Len(doc) |-> doc[i].key]

\* C9: every call returns the same document, with the ten top-level keys
\* and every list in the order written, whatever was done to the documents
\* returned before.
C9_SameDocumentEveryCall ==
  \A i \in 1..Len(retlog) :
    /\ retlog[i].doc = retlog[1].doc
    /\ Keys(retlog[i].doc) =
         <<"personalInfo", "summary", "experience", "projects", "education",
           "certifications", "courses", "skills", "languages", "templateSettings">>
    /\ retlog[i].doc[3].items[1] = "Cisco"
    /\ retlog[i].doc[3].items[5] = "Skandia"

C9_Witness ==
  /\ Len(retlog) >= 2
  /\ retlog[Len(retlog)].afterEdit
  /\ heap[returned[1]] = <<>>

====
